---- MODULE Spec2Model ----
(***************************************************************************)
(* Real-time collaboration channel of the notes application: the Socket.IO *)
(* handlers of setupNoteSockets (join / edit / leave), the access control  *)
(* evaluator canAccessNote, the Socket.IO room registry and the Note store *)
(* as the handlers use it.                                                 *)
(*                                                                         *)
(* Every `await` of a handler is a point where other handlers run, so a    *)
(* store call is two steps: the store applies the operation, and later the *)
(* handler's continuation resumes with the result.                         *)
(***************************************************************************)
EXTENDS Integers, Sequences, FiniteSets, TLC

(***************************************************************************)
(* Bounds of the model.                                                    *)
(***************************************************************************)
MaxReqs == 3        \* requests submitted in one behaviour of Spec
MaxJoins == 2       \* joins submitted in one behaviour of SpecJoin
MaxEdits == 2       \* edits submitted in one behaviour of SpecOrder
MaxShared == 2      \* longest sharedWith list given to the evaluator
MaxTries == 2       \* requests submitted in one behaviour of SpecTry
MaxCalls == 2       \* requests submitted in one behaviour of SpecHandshake
MaxRest == 1        \* socket edits submitted in one behaviour of SpecRest
MaxChanges == 3     \* local changes typed in one behaviour of SpecClient
MaxNotices == 1     \* socket-error events the editor receives in SpecClient
MaxReconnects == 1  \* reconnections of the editor's socket in SpecClient
DebounceMs == 120   \* delay of the editor's emit timer, in milliseconds
MaxVisits == 2      \* joins submitted in one behaviour of SpecRevoke
MaxOps == 2         \* joins and edits submitted in one behaviour of SpecShare

(***************************************************************************)
(* Values.                                                                 *)
(***************************************************************************)
Undefined == "undefined"
Conns == {"c1", "c2", "c3"}
Users == {"u1", "u2"}
DocKeys == {"n1", "n2", "n9"}

\* A candidate note id as a client sends it: its shape and the 12 bytes it denotes.
Id(k) == [form |-> "hex24", val |-> k]
UpperId(k) == [form |-> "HEX24", val |-> k]
JunkId == [form |-> "junk", val |-> ""]
NullId == [form |-> "null", val |-> ""]

\* An id-like value as it appears in a note: ObjectId, string, missing, other.
Oid(u) == [kind |-> "oid", hex |-> u]
Str(u) == [kind |-> "str", hex |-> u]
NoRef == [kind |-> "null", hex |-> ""]
Hexable(u) == [kind |-> "hexable", hex |-> u]
OtherRef == [kind |-> "other", hex |-> ""]

Truthy(s) == s \notin {Undefined, ""}

NoNote ==
  [exists |-> FALSE, user |-> NoRef, title |-> "", html |-> "",
   isPublic |-> FALSE, shareCode |-> Undefined, sharedWith |-> << >>]

MkNote(owner, t, h, pub, code, shared) ==
  [exists |-> TRUE, user |-> owner, title |-> t, html |-> h,
   isPublic |-> pub, shareCode |-> code, sharedWith |-> shared]

(***************************************************************************)
(* isValidObjectId: a string, accepted by ObjectId.isValid, and equal to   *)
(* the canonical string of the ObjectId built from it.                     *)
(***************************************************************************)
ObjectIdIsValid(id) == id.form \in {"hex24", "HEX24"}
ObjectIdToString(id) == [form |-> "hex24", val |-> id.val]
\* Mutant: ObjectId.isValid alone, without the canonical round trip.
isValidObjectIdLoose(id) == id.form # "null" /\ ObjectIdIsValid(id)

isValidObjectId(id) ==
  /\ id.form # "null"
  /\ ObjectIdIsValid(id)
  /\ ObjectIdToString(id) = id

(***************************************************************************)
(* toIdString: the string of an id-like value, or Undefined (null).        *)
(***************************************************************************)
toIdString(v) ==
  CASE v.kind = "null" -> Undefined
    [] v.kind = "str" -> IF v.hex = "" THEN Undefined ELSE v.hex
    [] v.kind = "oid" -> v.hex
    [] v.kind = "hexable" -> v.hex
    [] OTHER -> Undefined

(***************************************************************************)
(* canAccessNote: public, matching share code, owner, member of sharedWith.*)
(***************************************************************************)
RECURSIVE SharedHas(_, _, _)
SharedHas(shared, i, userId) ==
  IF i > Len(shared) THEN FALSE
  ELSE LET sid == toIdString(shared[i])
       IN IF Truthy(sid) /\ sid = userId THEN TRUE
          ELSE SharedHas(shared, i + 1, userId)

\* Mutant: ids compared as they are, so that an ObjectId never equals a string.
RawEquals(v, userId) == v.kind = "str" /\ v.hex = userId
canAccessNoteByReference(note, userId, providedShareCode) ==
  IF note.isPublic THEN TRUE
  ELSE IF Truthy(providedShareCode) /\ Truthy(note.shareCode)
          /\ providedShareCode = note.shareCode THEN TRUE
  ELSE IF ~Truthy(userId) THEN FALSE
  ELSE \/ RawEquals(note.user, userId)
       \/ \E j \in 1..Len(note.sharedWith) : RawEquals(note.sharedWith[j], userId)

canAccessNote(note, userId, providedShareCode) ==
  IF note.isPublic THEN TRUE
  ELSE IF Truthy(providedShareCode) /\ Truthy(note.shareCode)
          /\ providedShareCode = note.shareCode THEN TRUE
  ELSE IF ~Truthy(userId) THEN FALSE
  ELSE LET owner == toIdString(note.user)
       IN IF Truthy(owner) /\ owner = userId THEN TRUE
          ELSE SharedHas(note.sharedWith, 1, userId)

(***************************************************************************)
(* attachSocketAuth: the token of the handshake (auth.token, else the      *)
(* Authorization header without its Bearer prefix), verified with          *)
(* jwt.verify; the identity is payload.sub || payload.userId || payload.id.*)
(* Any exception leaves the socket without identity.                       *)
(***************************************************************************)
NoToken == [state |-> "none", sub |-> Undefined, userId |-> Undefined, id |-> Undefined]
Token(state, sub, uid, id) == [state |-> state, sub |-> sub, userId |-> uid, id |-> id]
NoHeader == [scheme |-> "none", tok |-> NoToken]
Header(scheme, tok) == [scheme |-> scheme, tok |-> tok]
NoHandshake == [auth |-> NoToken, header |-> NoHeader]

\* (headers.authorization || "").replace(/^Bearer\s+/i, "")
StripBearer(h) ==
  CASE h.scheme = "none" -> NoToken
    [] h.scheme = "Bearer" -> h.tok
    [] h.scheme = "raw" -> h.tok
    [] OTHER -> [h.tok EXCEPT !.state = "malformed"]

HandshakeToken(hs) == IF hs.auth # NoToken THEN hs.auth ELSE StripBearer(hs.header)

\* Mutant: the expiry of the token is not checked.
JwtVerifyIgnoringExpiry(tok) ==
  [ok |-> tok.state \in {"valid", "expired"}, payload |-> tok]

\* jwt.verify(token, secret): the payload, or an exception.
JwtVerify(tok) == [ok |-> tok.state = "valid", payload |-> tok]

PayloadIdentity(p) ==
  IF Truthy(p.sub) THEN p.sub
  ELSE IF Truthy(p.userId) THEN p.userId
  ELSE IF Truthy(p.id) THEN p.id
  ELSE Undefined

\* The value of socket.data.userId after the middleware.
AuthIdentity(hs) ==
  LET token == HandshakeToken(hs)
      verified == JwtVerify(token)
  IN IF token = NoToken THEN Undefined
     ELSE IF verified.ok THEN PayloadIdentity(verified.payload)
     ELSE Undefined

(***************************************************************************)
(* State.                                                                  *)
(***************************************************************************)
VARIABLES
  store,          \* Note collection: document key -> note (or NoNote)
  userId,         \* socket.data.userId of each connection
  connected,      \* the connection's transport is open
  rooms,          \* socket.rooms of each connection (document rooms)
  currentNoteId,  \* socket.data.currentNoteId
  pending,        \* handler invocations suspended at an await
  nsub,           \* number of requests submitted so far
  last,           \* the request the last step completed (NoReq if none)
  out,            \* events the last step delivered to each client, in order
  recv,           \* edits whose `update` each client has received, in order
  writes,         \* edits whose write the store applied, in order
  acNote, acUser, acCode, acResult,  \* one evaluation of canAccessNote
  client          \* one NoteEditor of the client application

vars == <<store, userId, connected, rooms, currentNoteId, pending, nsub, last, out,
          recv, writes, acNote, acUser, acCode, acResult, client>>
acVars == <<acNote, acUser, acCode, acResult>>

Msg(ev, id, t, h, m) ==
  [ev |-> ev, noteId |-> id, title |-> t, html |-> h, message |-> m]

SocketError(m) == Msg("socket-error", NullId, "", "", m)

NoOut == [c \in Conns |-> << >>]

\* Mutant: io.emit, which reaches every client.
EmitAll(o, c, m) == [d \in Conns |-> Append(o[d], m)]

\* socket.emit: to the socket's own client; dropped once the transport is closed.
EmitSelf(o, c, m) ==
  IF connected[c] THEN [o EXCEPT ![c] = Append(@, m)] ELSE o

\* Mutant: io.to(room).emit, which also reaches the sender.
BroadcastToAll(o, rms, room, sender, m) ==
  [d \in Conns |-> IF room \in rms[d] THEN Append(o[d], m) ELSE o[d]]

\* socket.to(room).emit: to every socket in the room except the sender.
BroadcastTo(o, rms, room, sender, m) ==
  [d \in Conns |->
     IF d # sender /\ room \in rms[d] THEN Append(o[d], m) ELSE o[d]]

Ack(ok, m) == [ok |-> ok, msg |-> m]

NewReq(n, c, kind, id, code, t, h) ==
  [seq |-> n, conn |-> c, kind |-> kind, id |-> id, code |-> code, title |-> t,
   html |-> h, pc |-> "new", note |-> NoNote, acks |-> << >>,
   allowed |-> FALSE, outcome |-> "pending", passed |-> FALSE, ack |-> TRUE,
   hs |-> NoHandshake, readAt |-> 0, arg |-> Undefined]

NoReq == NewReq(0, "none", "none", NullId, Undefined, "", "")

\* `passed`, `readAt` (the number of writes the store had applied when it
\* answered the request's read) and `arg` record history; no handler reads them.
\* An edit as the logs `writes` and `recv` record it.
Entry(r) ==
  [seq |-> r.seq, conn |-> r.conn, id |-> r.id, title |-> r.title, html |-> r.html]

\* Mutant: the acknowledgement callback is called twice.
FinishTwice(r, outcome, acks) ==
  [r EXCEPT !.pc = "done", !.outcome = outcome,
            !.acks = IF r.ack THEN acks \o acks ELSE << >>]

\* The handler returns; `ack?.(...)` calls the callback only if one was bound.
Finish(r, outcome, acks) ==
  [r EXCEPT !.pc = "done", !.outcome = outcome,
            !.acks = IF r.ack THEN acks ELSE << >>]

\* The NoteEditor before it is mounted: its refs, its state and its socket.
\* `typed`, `changes`, `notices`, `reconnects`, `denials` and `suppressed`
\* record the history of the behaviour; the code does not read them.
InitClient ==
  [mounted |-> "no", idOk |-> TRUE, singleton |-> FALSE, effect |-> "idle",
   online |-> FALSE, joinOnConnect |-> FALSE, latest |-> [title |-> "", html |-> ""],
   typed |-> [title |-> "", html |-> ""], timer |-> -1, navigatedAway |-> FALSE,
   navs |-> 0, waiting |-> << >>, sent |-> << >>, acksDue |-> 0, changes |-> 0,
   notices |-> 0, reconnects |-> 0, denials |-> 0, suppressed |-> 0]

InitStore ==
  [k \in DocKeys |->
     CASE k = "n1" -> MkNote(Oid("u1"), "T0", "H0", FALSE, "abc", <<Oid("u2")>>)
       [] k = "n2" -> MkNote(Oid("u1"), "T0", "H0", TRUE, "xyz", << >>)
       [] OTHER -> NoNote]

InitUsers ==
  [c \in Conns |-> CASE c = "c1" -> "u1" [] c = "c2" -> "u2" [] OTHER -> Undefined]

InitAc ==
  /\ acNote = NoNote
  /\ acUser = Undefined
  /\ acCode = Undefined
  /\ acResult = "none"

Init ==
  /\ store = InitStore
  /\ userId = InitUsers
  /\ connected = [c \in Conns |-> TRUE]
  /\ rooms = [c \in Conns |-> {}]
  /\ currentNoteId = [c \in Conns |-> NullId]
  /\ pending = {}
  /\ nsub = 0
  /\ last = NoReq
  /\ out = NoOut
  /\ recv = [c \in Conns |-> << >>]
  /\ writes = << >>
  /\ InitAc
  /\ client = InitClient

(***************************************************************************)
(* A client connects: the middleware runs and calls next() without error   *)
(* on both of its paths, then the connection handler initialises           *)
(* socket.data.currentNoteId.                                              *)
(***************************************************************************)
Handshake(c, hs) ==
  /\ ~connected[c]
  /\ connected' = [connected EXCEPT ![c] = TRUE]
  /\ userId' = [userId EXCEPT ![c] = AuthIdentity(hs)]
  /\ currentNoteId' = [currentNoteId EXCEPT ![c] = NullId]
  /\ last' = [NoReq EXCEPT !.kind = "handshake", !.conn = c, !.pc = "done",
                           !.outcome = "admitted", !.hs = hs]
  /\ out' = NoOut
  /\ UNCHANGED <<store, rooms, pending, nsub, recv, writes, acVars, client>>

(***************************************************************************)
(* The Note store as the handlers' awaits see it.                          *)
(***************************************************************************)
Step(r, r2) == pending' = (pending \ {r}) \cup {r2}
Complete(r, r2) == pending' = pending \ {r} /\ last' = r2

\* Mutant: the document as it was when the server started (a cached copy).
FindByIdCached(st, k) == InitStore[k]

\* Note.findById(id): the document as the store holds it now, or null.
FindById(st, k) == st[k]

\* Mutant: a store that serves one request at a time, oldest first.
StoreReadInTurn(r) ==
  /\ r \in pending
  /\ r.pc = "reading"
  /\ \A q \in pending : q.seq >= r.seq
  /\ Step(r, [r EXCEPT !.pc = "resume", !.note = FindById(store, r.id.val),
                        !.readAt = Len(writes)])
  /\ last' = NoReq
  /\ out' = NoOut
  /\ UNCHANGED <<store, userId, connected, rooms, currentNoteId, nsub, recv, writes, acVars, client>>

\* Note.findById reaches the store: the snapshot is taken now.
StoreRead(r) ==
  /\ r \in pending
  /\ r.pc = "reading"
  /\ Step(r, [r EXCEPT !.pc = "resume", !.note = FindById(store, r.id.val),
                        !.readAt = Len(writes)])
  /\ last' = NoReq
  /\ out' = NoOut
  /\ UNCHANGED <<store, userId, connected, rooms, currentNoteId, nsub, recv, writes, acVars, client>>

\* Mutant: the update forgets the html.
ApplyUpdateTitleOnly(st, k, t, h) ==
  IF st[k].exists THEN [st EXCEPT ![k].title = t] ELSE st

\* findByIdAndUpdate(id, {html, title, updatedAt}, {new: false}) without upsert.
ApplyUpdate(st, k, t, h) ==
  IF st[k].exists THEN [st EXCEPT ![k].title = t, ![k].html = h] ELSE st

\* Note.findByIdAndUpdate reaches the store: applied now.
StoreWrite(r) ==
  /\ r \in pending
  /\ r.pc = "writing"
  /\ store' = ApplyUpdate(store, r.id.val, r.title, r.html)
  /\ writes' = IF store[r.id.val].exists THEN Append(writes, Entry(r)) ELSE writes
  /\ Step(r, [r EXCEPT !.pc = "written"])
  /\ last' = NoReq
  /\ out' = NoOut
  /\ UNCHANGED <<userId, connected, rooms, currentNoteId, nsub, recv, acVars, client>>

(***************************************************************************)
(* socket.on("join", async (noteId, opts, ack) => ...)                     *)
(***************************************************************************)
\* Mutant: a rejected join also emits socket-error to the caller.
JoinRejectWithError(o, c, m) == EmitSelf(o, c, SocketError(m))

\* What a rejecting return of the join handler emits besides the ack: nothing.
JoinReject(o, c, m) == o

\* The join handler up to its await; hasAck tells whether the third argument,
\* the acknowledgement callback, was supplied.
JoinSubmitAs(c, id, code, hasAck) ==
  /\ connected[c]
  /\ nsub' = nsub + 1
  /\ LET r == [NewReq(nsub + 1, c, "join", id, code, "", "") EXCEPT !.ack = hasAck]
     IN IF ~isValidObjectId(id)
        THEN /\ last' = Finish(r, "invalid", <<Ack(FALSE, "Invalid note id.")>>)
             /\ out' = JoinReject(NoOut, c, "Invalid note id.")
             /\ UNCHANGED pending
        ELSE /\ pending' = pending \cup {[r EXCEPT !.pc = "reading"]}
             /\ last' = NoReq
             /\ out' = NoOut
  /\ UNCHANGED <<store, userId, connected, rooms, currentNoteId, recv, writes, acVars, client>>

\* join(noteId, { shareCode }, ack), as the client sends it.
JoinSubmit(c, id, code) == JoinSubmitAs(c, id, code, TRUE)

\* join(noteId, ack): the callback is bound to `opts`, whose shareCode is
\* undefined, and `ack` is undefined.
JoinTwoArgs(c, id) == JoinSubmitAs(c, id, Undefined, FALSE)

\* Mutant: the previous room is kept (a join that only calls socket.join).
LeavePrevKept(rms, c, prev) == rms

\* socket.leave(prev) when moving between rooms.
LeavePrev(rms, c, prev) == [rms EXCEPT ![c] = @ \ {prev}]

\* Mutant: the peer-left notice is forgotten.
NotifyLeftNone(o, rms, c, room) == o

\* socket.to(room).emit("peer-left", { noteId: room })
NotifyLeft(o, rms, c, room) ==
  BroadcastTo(o, rms, room, c, Msg("peer-left", room, "", "", ""))

\* Mutant: every join of an existing document is admitted.
JoinAllowedAlways(r) == TRUE

\* Mutant: the share code sent with the join is not handed to the evaluator.
JoinAllowedWithoutCode(r) == canAccessNote(r.note, userId[r.conn], Undefined)

\* Mutant: the join is evaluated as if the connection had no identity.
JoinAllowedWithoutIdentity(r) == canAccessNote(r.note, Undefined, r.code)

\* canAccessNote(note, socket.data.userId, opts?.shareCode) of the join handler.
JoinAllowed(r) == canAccessNote(r.note, userId[r.conn], r.code)

\* Mutant: access is decided before existence.
JoinVerdictAccessFirst(r) ==
  IF ~canAccessNote(r.note, userId[r.conn], r.code) THEN "denied"
  ELSE IF ~r.note.exists THEN "notfound"
  ELSE "joined"

\* The early returns of the join handler after the read, in their order.
JoinVerdict(r) ==
  IF ~r.note.exists THEN "notfound"
  ELSE IF ~JoinAllowed(r) THEN "denied"
  ELSE "joined"

\* Mutant: io.to(noteId).emit, so that the joiner is told of its own join.
NotifyJoinedAll(o, rms, c, id) ==
  BroadcastToAll(o, rms, id, c, Msg("peer-joined", id, "", "", ""))

\* socket.to(noteId).emit("peer-joined", { noteId })
NotifyJoined(o, rms, c, id) ==
  BroadcastTo(o, rms, id, c, Msg("peer-joined", id, "", "", ""))

\* socket.join(noteId); a closed socket's join is a no-op.
JoinRoom(rms, c, id) == IF connected[c] THEN [rms EXCEPT ![c] = @ \cup {id}] ELSE rms

JoinResume(r) ==
  /\ r \in pending
  /\ r.kind = "join"
  /\ r.pc = "resume"
  /\ LET c == r.conn
         verdict == JoinVerdict(r)
         prev == currentNoteId[c]
         moving == prev # NullId /\ prev # r.id
         rooms1 == IF moving THEN LeavePrev(rooms, c, prev) ELSE rooms
         out1 == IF moving
                 THEN NotifyLeft(NoOut, rooms1, c, prev)
                 ELSE NoOut
         rooms2 == JoinRoom(rooms1, c, r.id)
         out2 == EmitSelf(out1, c, Msg("load-note", NullId, r.note.title, r.note.html, ""))
         out3 == NotifyJoined(out2, rooms2, c, r.id)
     IN IF verdict = "notfound"
        THEN /\ Complete(r, Finish(r, "notfound", <<Ack(FALSE, "Note not found.")>>))
             /\ out' = JoinReject(NoOut, c, "Note not found.")
             /\ UNCHANGED <<rooms, currentNoteId>>
        ELSE IF verdict = "denied"
        THEN /\ Complete(r, Finish(r, "denied", <<Ack(FALSE, "Access denied.")>>))
             /\ out' = JoinReject(NoOut, c, "Access denied.")
             /\ UNCHANGED <<rooms, currentNoteId>>
        ELSE /\ rooms' = rooms2
             /\ currentNoteId' = [currentNoteId EXCEPT ![c] = r.id]
             /\ out' = out3
             /\ Complete(r, Finish([r EXCEPT !.allowed = TRUE], "joined", <<Ack(TRUE, Undefined)>>))
  /\ UNCHANGED <<store, userId, connected, nsub, recv, writes, acVars, client>>

\* `await Note.findById` rejects: the catch block of the join handler.
JoinFailed(r) ==
  /\ r \in pending
  /\ r.kind = "join"
  /\ r.pc = "reading"
  /\ Complete(r, Finish(r, "failed", <<Ack(FALSE, "Failed to join note.")>>))
  /\ out' = JoinReject(NoOut, r.conn, "Failed to join note.")
  /\ UNCHANGED <<store, userId, connected, rooms, currentNoteId, nsub, recv, writes, acVars, client>>

(***************************************************************************)
(* socket.on("edit", async ({ id, html, title }) => ...)                   *)
(***************************************************************************)
\* Mutant: every edit of an existing document is allowed.
EditAllowedAlways(r) == TRUE

\* Mutant: a member of the document's room keeps its write access.
EditAllowedForMembers(r) ==
  r.id \in rooms[r.conn] \/ canAccessNote(r.note, userId[r.conn], Undefined)

\* Mutant: the stored share code is taken as presented again.
EditAllowedByStoredCode(r) == canAccessNote(r.note, userId[r.conn], r.note.shareCode)

\* canAccessNote(note, socket.data.userId, undefined) of the edit handler.
EditAllowed(r) == canAccessNote(r.note, userId[r.conn], Undefined)

\* Whether the store, as it is when an edit is submitted, lets the connection
\* edit the document (recorded with the request; the handler never reads it).
PassesNow(c, id) ==
  /\ isValidObjectId(id)
  /\ store[id.val].exists
  /\ canAccessNote(store[id.val], userId[c], Undefined)

EditSubmit(c, id, p) ==
  /\ connected[c]
  /\ nsub' = nsub + 1
  /\ LET r == [NewReq(nsub + 1, c, "edit", id, Undefined, p.title, p.html)
                 EXCEPT !.passed = PassesNow(c, id)]
     IN IF ~isValidObjectId(id)
        THEN /\ last' = Finish(r, "invalid", << >>)
             /\ out' = EmitSelf(NoOut, c, SocketError("Invalid note id."))
             /\ UNCHANGED pending
        ELSE /\ pending' = pending \cup {[r EXCEPT !.pc = "reading"]}
             /\ last' = NoReq
             /\ out' = NoOut
  /\ UNCHANGED <<store, userId, connected, rooms, currentNoteId, recv, writes, acVars, client>>

\* After `await Note.findById(id)`: existence and access, then the write is issued.
EditResume(r) ==
  /\ r \in pending
  /\ r.kind = "edit"
  /\ r.pc = "resume"
  /\ LET c == r.conn
         allowed == EditAllowed(r)
     IN IF ~r.note.exists
        THEN /\ Complete(r, Finish(r, "notfound", << >>))
             /\ out' = EmitSelf(NoOut, c, SocketError("Note not found."))
        ELSE IF ~allowed
        THEN /\ Complete(r, Finish(r, "denied", << >>))
             /\ out' = EmitSelf(NoOut, c, SocketError("Access denied."))
        ELSE /\ Step(r, [r EXCEPT !.pc = "writing", !.allowed = TRUE])
             /\ last' = NoReq
             /\ out' = NoOut
  /\ UNCHANGED <<store, userId, connected, rooms, currentNoteId, nsub, recv, writes, acVars, client>>

\* The `update` of an edit: socket.to(id).emit("update", { html, title }).
UpdateMsg(r) == Msg("update", NullId, r.title, r.html, "")
\* Mutant: the broadcast is skipped once the sender's transport is closed.
UpdateToIfConnected(o, rms, r) ==
  IF connected[r.conn] THEN BroadcastTo(o, rms, r.id, r.conn, UpdateMsg(r)) ELSE o

UpdateTo(o, rms, r) == BroadcastTo(o, rms, r.id, r.conn, UpdateMsg(r))

\* After `await Note.findByIdAndUpdate(...)`: the broadcast.
EditDone(r) ==
  /\ r \in pending
  /\ r.kind = "edit"
  /\ r.pc = "written"
  /\ Complete(r, Finish(r, "broadcast", << >>))
  /\ out' = UpdateTo(NoOut, rooms, r)
  /\ recv' = [d \in Conns |->
                IF out'[d] # << >>
                THEN Append(recv[d], [Entry(r) EXCEPT !.title = out'[d][1].title,
                                                      !.html = out'[d][1].html])
                ELSE recv[d]]
  /\ UNCHANGED <<store, userId, connected, rooms, currentNoteId, nsub, writes, acVars, client>>

\* One of the two awaited store calls rejects: the catch block of the edit handler.
EditFailed(r) ==
  /\ r \in pending
  /\ r.kind = "edit"
  /\ r.pc \in {"reading", "writing"}
  /\ Complete(r, Finish(r, "failed", << >>))
  /\ out' = EmitSelf(NoOut, r.conn, SocketError("Failed to save changes."))
  /\ UNCHANGED <<store, userId, connected, rooms, currentNoteId, nsub, recv, writes, acVars, client>>

(***************************************************************************)
(* socket.on("leave", (noteId, ack) => ...)                                *)
(***************************************************************************)
\* noteId ?? socket.data.currentNoteId
LeaveTarget(c, noteId) == IF noteId = NullId THEN currentNoteId[c] ELSE noteId

\* Mutant: the membership test always succeeds.
InRoomAlways(rms, c, target) == TRUE

\* socket.rooms.has(target)
InRoom(rms, c, target) == target \in rms[c]

\* Mutant: the current-room attribute survives the leave.
ClearCurrentNever(cur, c, target) == cur

\* if (socket.data.currentNoteId === target) socket.data.currentNoteId = null
ClearCurrent(cur, c, target) == IF cur[c] = target THEN [cur EXCEPT ![c] = NullId] ELSE cur

Leave(c, noteId) ==
  /\ connected[c]
  /\ nsub' = nsub + 1
  /\ LET target == LeaveTarget(c, noteId)
         r == NewReq(nsub + 1, c, "leave", noteId, Undefined, "", "")
         rooms1 == [rooms EXCEPT ![c] = @ \ {target}]
     IN IF target = NullId
        THEN /\ last' = Finish(r, "noroom", <<Ack(FALSE, "Not in any note room.")>>)
             /\ out' = NoOut
             /\ UNCHANGED <<rooms, currentNoteId>>
        ELSE IF ~InRoom(rooms, c, target)
        THEN /\ last' = Finish(r, "notjoined", <<Ack(FALSE, "Not joined in that room.")>>)
             /\ out' = NoOut
             /\ UNCHANGED <<rooms, currentNoteId>>
        ELSE /\ rooms' = rooms1
             /\ currentNoteId' = ClearCurrent(currentNoteId, c, target)
             /\ out' = NotifyLeft(NoOut, rooms1, c, target)
             /\ last' = Finish(r, "left", <<Ack(TRUE, Undefined)>>)
  /\ UNCHANGED <<store, userId, connected, pending, recv, writes, acVars, client>>

\* Mutant: a "disconnecting" handler that notifies the current room.
OnDisconnectingNotify(c) ==
  IF currentNoteId[c] # NullId
  THEN BroadcastTo(NoOut, rooms, currentNoteId[c], c,
                   Msg("peer-left", currentNoteId[c], "", "", ""))
  ELSE NoOut

(***************************************************************************)
(* The transport closes: Socket.IO removes the socket from its rooms; the  *)
(* handlers register nothing for "disconnecting", so nothing is emitted.   *)
(***************************************************************************)
OnDisconnecting(c) == NoOut

Disconnect(c) ==
  /\ connected[c]
  /\ out' = OnDisconnecting(c)
  /\ connected' = [connected EXCEPT ![c] = FALSE]
  /\ rooms' = [rooms EXCEPT ![c] = {}]
  /\ last' = [NoReq EXCEPT !.kind = "disconnect", !.conn = c, !.pc = "done"]
  /\ UNCHANGED <<store, userId, currentNoteId, pending, nsub, recv, writes, acVars, client>>

(***************************************************************************)
(* POST /:id/share/public by the note's owner: note.isPublic = !!enable,   *)
(* a share code is generated on the first enable, then note.save().        *)
(***************************************************************************)
SharePublic(k, enable) ==
  /\ store[k].exists
  /\ store[k].isPublic # enable
  /\ store' = [store EXCEPT
                 ![k].isPublic = enable,
                 ![k].shareCode = IF enable /\ ~Truthy(@) THEN "gen" ELSE @]
  /\ last' = NoReq
  /\ out' = NoOut
  /\ UNCHANGED <<userId, connected, rooms, currentNoteId, pending, nsub, recv, writes, acVars, client>>

(***************************************************************************)
(* POST /:id/share/revoke by the note's owner: with a userId that user is  *)
(* removed from sharedWith; without one the note is made private and its   *)
(* share code cleared; then note.save().                                   *)
(***************************************************************************)
RefToString(v) == IF v.kind \in {"oid", "str", "hexable"} THEN v.hex ELSE Undefined

ShareRevoke(k, u) ==
  /\ store[k].exists
  /\ store' = IF Truthy(u)
               THEN [store EXCEPT ![k].sharedWith =
                       SelectSeq(@, LAMBDA x : RefToString(x) # u)]
               ELSE [store EXCEPT ![k].isPublic = FALSE, ![k].shareCode = Undefined]
  /\ store' # store
  /\ last' = NoReq
  /\ out' = NoOut
  /\ UNCHANGED <<userId, connected, rooms, currentNoteId, pending, nsub, recv, writes, acVars, client>>

(***************************************************************************)
(* DELETE /:id by the note's owner: Note.deleteOne({ _id: id }).           *)
(***************************************************************************)
DeleteNote(k) ==
  /\ store[k].exists
  /\ store' = [store EXCEPT ![k] = NoNote]
  /\ last' = NoReq
  /\ out' = NoOut
  /\ UNCHANGED <<userId, connected, rooms, currentNoteId, pending, nsub, recv, writes, acVars, client>>

(***************************************************************************)
(* The notes routes as an authenticated user calls them. Each handler     *)
(* reads the note, checks the caller against note.user and writes; the     *)
(* owner of a note never changes, so the handler is taken as one step.     *)
(***************************************************************************)
\* Mutant: users in sharedWith pass the owner check.
isOwnerOrShared(note, u) ==
  /\ Truthy(u)
  /\ \/ RefToString(note.user) = u
     \/ \E j \in 1..Len(note.sharedWith) : RefToString(note.sharedWith[j]) = u

isOwner(note, u) == Truthy(u) /\ RefToString(note.user) = u

isSharedWith(note, u) ==
  Truthy(u) /\ \E j \in 1..Len(note.sharedWith) : RefToString(note.sharedWith[j]) = u

HttpDone(u, route, k, status) ==
  [NoReq EXCEPT !.kind = "http", !.conn = u, !.code = route, !.id = Id(k),
                !.pc = "done", !.outcome = status]

\* The status of an owner-only route, and of GET /:id.
OwnerOnly(note, u) ==
  IF ~note.exists THEN "404" ELSE IF ~isOwner(note, u) THEN "403" ELSE "200"

HttpFrame == UNCHANGED <<userId, connected, rooms, currentNoteId, pending, nsub, recv,
                         writes, acVars, client>>

HttpGet(u, k) ==
  /\ last' = HttpDone(u, "get", k,
                IF ~store[k].exists THEN "404"
                ELSE IF ~(isOwner(store[k], u) \/ isSharedWith(store[k], u)) THEN "403"
                ELSE "200")
  /\ out' = NoOut
  /\ UNCHANGED store
  /\ HttpFrame

HttpPut(u, k, t, h) ==
  /\ last' = HttpDone(u, "put", k, OwnerOnly(store[k], u))
  /\ store' = IF OwnerOnly(store[k], u) = "200" THEN ApplyUpdate(store, k, t, h) ELSE store
  /\ out' = NoOut
  /\ HttpFrame

HttpDelete(u, k) ==
  /\ last' = HttpDone(u, "delete", k, OwnerOnly(store[k], u))
  /\ store' = IF OwnerOnly(store[k], u) = "200" THEN [store EXCEPT ![k] = NoNote] ELSE store
  /\ out' = NoOut
  /\ HttpFrame

\* Mutant: disabling public sharing also clears the share code.
SetPublicClearingCode(note, enable) ==
  [note EXCEPT !.isPublic = enable,
               !.shareCode = IF ~enable THEN Undefined
                             ELSE IF ~Truthy(@) THEN "gen" ELSE @]

\* note.isPublic = !!enable; a share code is generated when enabling without one.
SetPublic(note, enable) ==
  [note EXCEPT !.isPublic = enable,
               !.shareCode = IF enable /\ ~Truthy(@) THEN "gen" ELSE @]

HttpSharePublic(u, k, enable) ==
  /\ last' = [HttpDone(u, "share/public", k, OwnerOnly(store[k], u))
                 EXCEPT !.arg = IF enable THEN "true" ELSE "false"]
  /\ store' = IF OwnerOnly(store[k], u) = "200"
               THEN [store EXCEPT ![k] = SetPublic(@, enable)]
               ELSE store
  /\ out' = NoOut
  /\ HttpFrame

HttpShareInvite(u, k, v) ==
  /\ last' = HttpDone(u, "share/invite", k, OwnerOnly(store[k], u))
  /\ store' = IF OwnerOnly(store[k], u) = "200" /\ ~isSharedWith(store[k], v)
               THEN [store EXCEPT ![k].sharedWith = Append(@, Oid(v))]
               ELSE store
  /\ out' = NoOut
  /\ HttpFrame

\* Mutant: the revocation makes the note private and keeps its share code.
RevokePublicKeepCode(note) == [note EXCEPT !.isPublic = FALSE]

\* note.isPublic = false; note.shareCode = undefined
RevokePublic(note) == [note EXCEPT !.isPublic = FALSE, !.shareCode = Undefined]

HttpShareRevoke(u, k, v) ==
  /\ last' = [HttpDone(u, "share/revoke", k, OwnerOnly(store[k], u)) EXCEPT !.arg = v]
  /\ store' = IF OwnerOnly(store[k], u) # "200" THEN store
               ELSE IF Truthy(v)
               THEN [store EXCEPT ![k].sharedWith =
                       SelectSeq(@, LAMBDA x : RefToString(x) # v)]
               ELSE [store EXCEPT ![k] = RevokePublic(@)]
  /\ out' = NoOut
  /\ HttpFrame

(***************************************************************************)
(* Rooms and broadcasts: joins that succeed, edits, leaves, disconnects.   *)
(***************************************************************************)
RoomJoinInputs == {<<Id("n1"), "abc">>, <<Id("n2"), Undefined>>}
RoomEditInputs == {<<Id("n1"), "T1", "H1">>}

Next ==
  \/ \E c \in Conns, in \in RoomJoinInputs :
       nsub < MaxReqs /\ JoinSubmit(c, in[1], in[2])
  \/ \E c \in Conns, in \in RoomEditInputs :
       nsub < MaxReqs /\ EditSubmit(c, in[1], [title |-> in[2], html |-> in[3]])
  \/ \E c \in Conns :
       nsub < MaxReqs /\ Leave(c, NullId)
  \/ \E c \in Conns : Disconnect(c)
  \/ \E r \in pending : StoreRead(r)
  \/ \E r \in pending : StoreWrite(r)
  \/ \E r \in pending : JoinResume(r)
  \/ \E r \in pending : JoinFailed(r)
  \/ \E r \in pending : EditResume(r)
  \/ \E r \in pending : EditDone(r)
  \/ \E r \in pending : EditFailed(r)

Spec == Init /\ [][Next]_vars

(***************************************************************************)
(* Join acknowledgements: every kind of join request, while the owner      *)
(* toggles public sharing of n1.                                           *)
(***************************************************************************)
JoinInputs ==
  {<<Id("n1"), Undefined>>, <<Id("n1"), "abc">>, <<Id("n1"), "bad">>,
   <<Id("n2"), Undefined>>, <<Id("n9"), Undefined>>, <<Id("n9"), "abc">>,
   <<UpperId("n1"), Undefined>>, <<JunkId, Undefined>>}

NextJoin ==
  \/ \E c \in Conns, in \in JoinInputs :
       nsub < MaxJoins /\ JoinSubmit(c, in[1], in[2])
  \/ \E enable \in BOOLEAN : SharePublic("n1", enable)
  \/ \E r \in pending : StoreRead(r)
  \/ \E r \in pending : JoinResume(r)
  \/ \E r \in pending : JoinFailed(r)

SpecJoin == Init /\ [][NextJoin]_vars

(***************************************************************************)
(* Racing edits: the three connections are in the room of the public note  *)
(* n2; c1 and c2 edit it.                                                  *)
(***************************************************************************)
InitOrder ==
  /\ store = InitStore
  /\ userId = InitUsers
  /\ connected = [c \in Conns |-> TRUE]
  /\ rooms = [c \in Conns |-> {Id("n2")}]
  /\ currentNoteId = [c \in Conns |-> Id("n2")]
  /\ pending = {}
  /\ nsub = 0
  /\ last = NoReq
  /\ out = NoOut
  /\ recv = [c \in Conns |-> << >>]
  /\ writes = << >>
  /\ InitAc
  /\ client = InitClient

OrderEditInputs == {<<Id("n2"), "T1", "H1">>, <<Id("n2"), "T2", "H2">>}

NextOrder ==
  \/ \E c \in {"c1", "c2"}, in \in OrderEditInputs :
       nsub < MaxEdits /\ EditSubmit(c, in[1], [title |-> in[2], html |-> in[3]])
  \/ \E r \in pending : StoreRead(r)
  \/ \E r \in pending : StoreWrite(r)
  \/ \E r \in pending : EditResume(r)
  \/ \E r \in pending : EditDone(r)
  \/ \E r \in pending : EditFailed(r)

SpecOrder == InitOrder /\ [][NextOrder]_vars

(***************************************************************************)
(* Sharing withdrawn under the collaborators: c2 (shared user) and c3 (no  *)
(* identity) join and edit while the owner makes notes private, clears the *)
(* share code, removes the shared user or deletes the note. Access is only *)
(* ever taken away in this specification.                                  *)
(***************************************************************************)
ShareEditInputs ==
  {<<Id("n1"), "T1", "H1">>, <<Id("n2"), "T1", "H1">>, <<Id("n9"), "T1", "H1">>}

NextShare ==
  \/ \E c \in {"c2", "c3"}, in \in RoomJoinInputs :
       nsub < MaxOps /\ JoinSubmit(c, in[1], in[2])
  \/ \E c \in {"c2", "c3"}, in \in ShareEditInputs :
       nsub < MaxOps /\ EditSubmit(c, in[1], [title |-> in[2], html |-> in[3]])
  \/ \E k \in {"n1", "n2"} : SharePublic(k, FALSE)
  \/ \E k \in {"n1", "n2"}, u \in {Undefined, "u2"} : ShareRevoke(k, u)
  \/ \E k \in {"n1", "n2"} : DeleteNote(k)
  \/ \E r \in pending : StoreRead(r)
  \/ \E r \in pending : StoreWrite(r)
  \/ \E r \in pending : JoinResume(r)
  \/ \E r \in pending : JoinFailed(r)
  \/ \E r \in pending : EditResume(r)
  \/ \E r \in pending : EditDone(r)
  \/ \E r \in pending : EditFailed(r)

SpecShare == Init /\ [][NextShare]_vars

(***************************************************************************)
(* Requests that fail, and leaves: c1 and c2 are in the room of n1, c3 in  *)
(* the room of n2; every kind of join, edit and leave request is tried.    *)
(***************************************************************************)
InitRooms ==
  /\ store = InitStore
  /\ userId = InitUsers
  /\ connected = [c \in Conns |-> TRUE]
  /\ rooms = [c \in Conns |-> IF c = "c3" THEN {Id("n2")} ELSE {Id("n1")}]
  /\ currentNoteId = [c \in Conns |-> IF c = "c3" THEN Id("n2") ELSE Id("n1")]
  /\ pending = {}
  /\ nsub = 0
  /\ last = NoReq
  /\ out = NoOut
  /\ recv = [c \in Conns |-> << >>]
  /\ writes = << >>
  /\ InitAc
  /\ client = InitClient

TryEditIds == {Id("n1"), Id("n9"), JunkId}
TryLeaveIds == {NullId, Id("n1"), Id("n2")}
TwoArgJoinIds == {JunkId, Id("n2"), Id("n9")}

NextTry ==
  \/ \E c \in Conns, in \in JoinInputs :
       nsub < MaxTries /\ JoinSubmit(c, in[1], in[2])
  \/ \E c \in Conns, id \in TwoArgJoinIds :
       nsub < MaxTries /\ JoinTwoArgs(c, id)
  \/ \E c \in Conns, id \in TryEditIds :
       nsub < MaxTries /\ EditSubmit(c, id, [title |-> "T1", html |-> "H1"])
  \/ \E c \in Conns, id \in TryLeaveIds :
       nsub < MaxTries /\ Leave(c, id)
  \/ \E r \in pending : StoreRead(r)
  \/ \E r \in pending : StoreWrite(r)
  \/ \E r \in pending : JoinResume(r)
  \/ \E r \in pending : JoinFailed(r)
  \/ \E r \in pending : EditResume(r)
  \/ \E r \in pending : EditDone(r)
  \/ \E r \in pending : EditFailed(r)

SpecTry == InitRooms /\ [][NextTry]_vars

\* Every store call returns or throws, and every continuation is run.
HandlerStep ==
  \E r \in pending :
    \/ StoreRead(r) \/ StoreWrite(r)
    \/ JoinResume(r) \/ JoinFailed(r)
    \/ EditResume(r) \/ EditDone(r) \/ EditFailed(r)

SpecTryLive == SpecTry /\ WF_vars(HandlerStep)

(***************************************************************************)
(* Handshakes: no client is connected at first; each connects once with    *)
(* some token and then joins, edits and leaves.                            *)
(***************************************************************************)
InitHandshake ==
  /\ store = InitStore
  /\ userId = [c \in Conns |-> Undefined]
  /\ connected = [c \in Conns |-> FALSE]
  /\ rooms = [c \in Conns |-> {}]
  /\ currentNoteId = [c \in Conns |-> NullId]
  /\ pending = {}
  /\ nsub = 0
  /\ last = NoReq
  /\ out = NoOut
  /\ recv = [c \in Conns |-> << >>]
  /\ writes = << >>
  /\ InitAc
  /\ client = InitClient

HandshakeInputs ==
  {NoHandshake,
   [auth |-> Token("valid", "u1", Undefined, Undefined), header |-> NoHeader],
   [auth |-> Token("valid", Undefined, Undefined, "u2"), header |-> NoHeader],
   [auth |-> Token("valid", "", "u2", "u1"), header |-> NoHeader],
   [auth |-> Token("valid", Undefined, Undefined, Undefined), header |-> NoHeader],
   [auth |-> Token("expired", "u1", Undefined, Undefined), header |-> NoHeader],
   [auth |-> Token("malformed", "u1", Undefined, Undefined), header |-> NoHeader],
   [auth |-> NoToken, header |-> Header("Bearer", Token("valid", "u2", Undefined, Undefined))],
   [auth |-> NoToken, header |-> Header("Basic", Token("valid", "u1", Undefined, Undefined))],
   [auth |-> Token("expired", "u1", Undefined, Undefined),
    header |-> Header("Bearer", Token("valid", "u1", Undefined, Undefined))]}

HandshakeJoinInputs == {<<Id("n1"), Undefined>>, <<Id("n2"), Undefined>>}

NextHandshake ==
  \/ \E c \in Conns, hs \in HandshakeInputs : Handshake(c, hs)
  \/ \E c \in Conns, in \in HandshakeJoinInputs :
       nsub < MaxCalls /\ JoinSubmit(c, in[1], in[2])
  \/ \E c \in Conns :
       nsub < MaxCalls /\ EditSubmit(c, Id("n1"), [title |-> "T1", html |-> "H1"])
  \/ \E c \in Conns :
       nsub < MaxCalls /\ Leave(c, NullId)
  \/ \E r \in pending : StoreRead(r)
  \/ \E r \in pending : StoreWrite(r)
  \/ \E r \in pending : JoinResume(r)
  \/ \E r \in pending : JoinFailed(r)
  \/ \E r \in pending : EditResume(r)
  \/ \E r \in pending : EditDone(r)
  \/ \E r \in pending : EditFailed(r)

SpecHandshake == InitHandshake /\ [][NextHandshake]_vars

(***************************************************************************)
(* The routes and the socket side by side: the owner u1 and the shared     *)
(* user u2 call the routes on n1; their connections c1 and c2 edit n1.     *)
(***************************************************************************)
RestUsers == {"u1", "u2"}

NextRest ==
  \/ \E u \in RestUsers : HttpGet(u, "n1")
  \/ \E u \in RestUsers : HttpPut(u, "n1", "T2", "H2")
  \/ \E u \in RestUsers : HttpDelete(u, "n1")
  \/ \E u \in RestUsers, enable \in BOOLEAN : HttpSharePublic(u, "n1", enable)
  \/ \E u \in RestUsers : HttpShareInvite(u, "n1", "u2")
  \/ \E u \in RestUsers, v \in {Undefined, "u2"} : HttpShareRevoke(u, "n1", v)
  \/ \E c \in {"c1", "c2"} :
       nsub < MaxRest /\ EditSubmit(c, Id("n1"), [title |-> "T1", html |-> "H1"])
  \/ \E r \in pending : StoreRead(r)
  \/ \E r \in pending : StoreWrite(r)
  \/ \E r \in pending : EditResume(r)
  \/ \E r \in pending : EditDone(r)
  \/ \E r \in pending : EditFailed(r)

SpecRest == Init /\ [][NextRest]_vars

(***************************************************************************)
(* Sessions: each connection sends two requests back to back, the second   *)
(* one while the first may still wait for its document. c1 joins a         *)
(* document and leaves it, as the editor does when it is unmounted; c2     *)
(* joins n1 and then n2; c3 joins n2 and then n1. The store answers every  *)
(* read.                                                                   *)
(***************************************************************************)
\* The document c1 asked to join: the one it waits for, or the one it is in.
Asked(c, id) ==
  \/ currentNoteId[c] = id
  \/ \E r \in pending : r.conn = c /\ r.kind = "join" /\ r.id = id

NextSession ==
  \/ \E in \in RoomJoinInputs :
       nsub = 0 /\ JoinSubmit("c1", in[1], in[2])
  \/ \E id \in TryLeaveIds :
       nsub = 1 /\ (id = NullId \/ Asked("c1", id)) /\ Leave("c1", id)
  \/ nsub = 2 /\ JoinSubmit("c2", Id("n1"), Undefined)
  \/ nsub = 3 /\ JoinSubmit("c2", Id("n2"), Undefined)
  \/ nsub = 4 /\ JoinSubmit("c3", Id("n2"), Undefined)
  \/ nsub = 5 /\ JoinSubmit("c3", Id("n1"), "abc")
  \/ \E r \in pending : StoreRead(r)
  \/ \E r \in pending : JoinResume(r)

SpecSession == Init /\ [][NextSession]_vars

(***************************************************************************)
(* Sharing switched off and on: the owner u1 (and u2, who is refused)      *)
(* calls share/public and share/revoke on the public note n2 while c2      *)
(* (user u2) and c3 (no identity) join it with and without share codes.    *)
(***************************************************************************)
VisitCodes == {Undefined, "xyz", "gen"}

NextRevoke ==
  \/ \E u \in RestUsers, enable \in BOOLEAN :
       HttpSharePublic(u, "n2", enable)
  \/ \E u \in RestUsers, v \in {Undefined, "u2"} :
       HttpShareRevoke(u, "n2", v)
  \/ \E c \in {"c2", "c3"}, code \in VisitCodes :
       nsub < MaxVisits /\ JoinSubmit(c, Id("n2"), code)
  \/ \E r \in pending : StoreRead(r)
  \/ \E r \in pending : JoinResume(r)
  \/ \E r \in pending : JoinFailed(r)

SpecRevoke == Init /\ [][NextRevoke]_vars

(***************************************************************************)
(* The evaluator alone: one call of canAccessNote on drawn arguments.      *)
(***************************************************************************)
Refs == {Oid("u1"), Oid("u2"), Str("u2"), Hexable("u2"), NoRef, OtherRef}

RECURSIVE SeqsUpTo(_, _)
SeqsUpTo(S, n) ==
  IF n = 0 THEN {<< >>}
  ELSE LET shorter == SeqsUpTo(S, n - 1)
       IN shorter \cup {Append(q, x) : q \in shorter, x \in S}

AccessNotes ==
  {MkNote(o, "T0", "H0", pub, code, sh) :
     o \in Refs, pub \in BOOLEAN, code \in {Undefined, "abc"},
     sh \in SeqsUpTo(Refs \ {Oid("u1")}, MaxShared)}

InitAccess ==
  /\ store = InitStore
  /\ userId = InitUsers
  /\ connected = [c \in Conns |-> TRUE]
  /\ rooms = [c \in Conns |-> {}]
  /\ currentNoteId = [c \in Conns |-> NullId]
  /\ pending = {}
  /\ nsub = 0
  /\ last = NoReq
  /\ out = NoOut
  /\ recv = [c \in Conns |-> << >>]
  /\ writes = << >>
  /\ acNote \in AccessNotes
  /\ acUser \in {Undefined, "", "u1", "u2", "u3"}
  /\ acCode \in {Undefined, "", "abc", "bad"}
  /\ acResult = "none"
  /\ client = InitClient

Evaluate ==
  /\ acResult = "none"
  /\ acResult' = IF canAccessNote(acNote, acUser, acCode) THEN "allow" ELSE "deny"
  /\ UNCHANGED <<store, userId, connected, rooms, currentNoteId, pending, nsub, last,
                 out, recv, writes, acNote, acUser, acCode, client>>

NextAccess == Evaluate

SpecAccess == InitAccess /\ [][NextAccess]_vars

(***************************************************************************)
(* The client: one NoteEditor and the socket it shares.                    *)
(***************************************************************************)
ClientFrame == UNCHANGED <<store, userId, connected, rooms, currentNoteId, pending, nsub,
                           last, out, recv, writes, acVars>>

TitleValues == {"Ta", "Tb"}
HtmlValues == {"Ha"}
ClientMessages == {"Access denied.", "Note not found.", "Invalid note id.",
                   "Failed to save changes.", "Unknown socket error"}
TimeSteps == {DebounceMs \div 3, DebounceMs}

ClientEvent(ev, content) == [ev |-> ev, title |-> content.title, html |-> content.html]

\* /access denied|not found|invalid note id/i over the messages of the server.
DenialText(m) == m \in {"Access denied.", "Note not found.", "Invalid note id."}

denyAndExit(cl) ==
  IF cl.navigatedAway THEN cl
  ELSE [cl EXCEPT !.navigatedAway = TRUE, !.navs = @ + 1]

joinRoom(cl) ==
  [cl EXCEPT !.sent = Append(@, ClientEvent("join", [title |-> "", html |-> ""])),
             !.acksDue = @ + 1]

\* The callback of the emit timer sends whatever the timer finds.
TimerEmitsAlways(cl) == TRUE

\* The callback of the emit timer sends unless the editor has navigated away.
TimerEmits(cl) == ~cl.navigatedAway

\* The effect after `await getOrCreateSocket()`: handlers and the first join.
EffectBody(cl) ==
  IF cl.mounted # "yes" THEN [cl EXCEPT !.effect = "dead"]
  ELSE IF cl.online THEN joinRoom([cl EXCEPT !.effect = "ready"])
  ELSE [cl EXCEPT !.effect = "ready", !.joinOnConnect = TRUE]

\* The editor mounts; the socket singleton may exist from an earlier screen.
Mount(ok, hasSocket, isOnline) ==
  /\ client.mounted = "no"
  /\ LET base == [client EXCEPT !.mounted = "yes", !.idOk = ok,
                                !.singleton = hasSocket,
                                !.online = hasSocket /\ isOnline]
     IN client' = IF ~ok THEN denyAndExit([base EXCEPT !.effect = "dead"])
                  ELSE IF hasSocket THEN EffectBody(base)
                  ELSE [base EXCEPT !.effect = "loading"]
  /\ ClientFrame

\* getOrCreateSocket of the effect returns after reading the stored token.
EffectResume ==
  /\ client.effect = "loading"
  /\ client' = EffectBody([client EXCEPT !.singleton = TRUE])
  /\ ClientFrame

Connect ==
  /\ client.singleton
  /\ ~client.online
  /\ client' = IF client.joinOnConnect
               THEN joinRoom([client EXCEPT !.online = TRUE, !.joinOnConnect = FALSE])
               ELSE [client EXCEPT !.online = TRUE]
  /\ ClientFrame

onReconnect ==
  /\ client.effect = "ready"
  /\ client.online
  /\ client.reconnects < MaxReconnects
  /\ LET cl == [client EXCEPT !.reconnects = @ + 1]
     IN client' = IF cl.idOk /\ ~cl.navigatedAway THEN joinRoom(cl) ELSE cl
  /\ ClientFrame

\* The user changes the title or the html: state is set and sendUpdate runs up
\* to its await, and past it when the socket singleton already exists.
sendUpdate(f, v) ==
  /\ client.mounted = "yes"
  /\ client.changes < MaxChanges
  /\ LET state == [client.typed EXCEPT ![f] = v]
         cl == [client EXCEPT !.changes = @ + 1, !.typed = state, !.latest = state]
     IN client' = IF ~cl.idOk \/ cl.navigatedAway THEN cl
                  ELSE IF cl.singleton THEN [cl EXCEPT !.timer = DebounceMs]
                  ELSE [cl EXCEPT !.waiting = Append(@, [f |-> f, v |-> v])]
  /\ ClientFrame

\* sendUpdate after its `await getOrCreateSocket()` had to read the stored token.
sendUpdateResume ==
  /\ client.waiting # << >>
  /\ LET p == Head(client.waiting)
     IN client' = [client EXCEPT !.waiting = Tail(@), !.singleton = TRUE,
                                 !.latest = [@ EXCEPT ![p.f] = p.v],
                                 !.timer = DebounceMs]
  /\ ClientFrame

Advance(dt) ==
  /\ client.timer > 0
  /\ dt <= client.timer
  /\ client' = [client EXCEPT !.timer = @ - dt]
  /\ ClientFrame

TimerFire ==
  /\ client.timer = 0
  /\ client' = IF TimerEmits(client)
               THEN [client EXCEPT !.timer = -1,
                                   !.sent = Append(@, ClientEvent("edit", client.latest))]
               ELSE [client EXCEPT !.timer = -1, !.suppressed = @ + 1]
  /\ ClientFrame

\* The cleanup of the effect.
Unmount ==
  /\ client.mounted = "yes"
  /\ LET cl == [client EXCEPT !.mounted = "gone", !.timer = -1]
     IN client' = IF cl.effect = "ready" /\ cl.idOk
                  THEN [cl EXCEPT !.effect = "off",
                                  !.sent = Append(@, ClientEvent("leave", [title |-> "", html |-> ""]))]
                  ELSE cl
  /\ ClientFrame

\* The acknowledgement of a join arrives.
onJoinAck(ok) ==
  /\ client.acksDue > 0
  /\ client.online
  /\ LET cl == [client EXCEPT !.acksDue = @ - 1,
                              !.denials = IF ok THEN @ ELSE @ + 1]
     IN client' = IF ok THEN cl ELSE denyAndExit(cl)
  /\ ClientFrame

onSocketError(m) ==
  /\ client.effect = "ready"
  /\ client.online
  /\ client.notices < MaxNotices
  /\ LET cl == [client EXCEPT !.notices = @ + 1,
                              !.denials = IF m \in {"Access denied.", "Note not found.",
                                                    "Invalid note id."}
                                          THEN @ + 1 ELSE @]
     IN client' = IF DenialText(m) THEN denyAndExit(cl) ELSE cl
  /\ ClientFrame

NextClient ==
  \/ \E ok \in BOOLEAN, hasSocket \in BOOLEAN, isOnline \in BOOLEAN :
       Mount(ok, hasSocket, isOnline)
  \/ EffectResume
  \/ Connect
  \/ onReconnect
  \/ \E v \in TitleValues : sendUpdate("title", v)
  \/ \E v \in HtmlValues : sendUpdate("html", v)
  \/ sendUpdateResume
  \/ \E dt \in TimeSteps : Advance(dt)
  \/ TimerFire
  \/ Unmount
  \/ \E ok \in BOOLEAN : onJoinAck(ok)
  \/ \E m \in ClientMessages : onSocketError(m)

SpecClient == Init /\ [][NextClient]_vars

(***************************************************************************)
(* Properties.                                                             *)
(***************************************************************************)
\* Number of events `ev` about room `id` in a delivery sequence.
Count(q, ev, id) ==
  Cardinality({j \in 1..Len(q) : q[j].ev = ev /\ q[j].noteId = id})

Events(q) == {q[j].ev : j \in 1..Len(q)}

\* C1: when the handler of an edit for D by connection a reaches its broadcast,
\* every other member b of D's room receives exactly one `update` carrying
\* exactly the title and html a sent, and a receives no `update` from it.
C1_EditReachesPeersWithoutEcho ==
  (last.kind = "edit" /\ last.outcome = "broadcast") =>
    /\ last.allowed
    /\ \A b \in Conns \ {last.conn} :
         (last.id \in rooms[last.conn] /\ last.id \in rooms[b]) =>
           out[b] = <<Msg("update", NullId, last.title, last.html, "")>>
    /\ out[last.conn] = << >>

C1_Witness ==
  /\ last.kind = "edit"
  /\ last.outcome = "broadcast"
  /\ last.id \in rooms[last.conn]
  /\ \E b \in Conns \ {last.conn} : last.id \in rooms[b] /\ Len(out[b]) = 1

\* C2: in every reachable state every connection is a member of at most one
\* document room.
C2_AtMostOneRoom == \A c \in Conns : Cardinality(rooms[c]) <= 1

C2_Witness ==
  /\ last.kind = "join"
  /\ last.outcome = "joined"
  /\ last.seq >= 2
  /\ rooms[last.conn] = {last.id}
  /\ \E d \in Conns \ {last.conn} : "peer-left" \in Events(out[d])

\* C5: the step in which a join of document B by a member of room A succeeds
\* removes the connection from A, adds it to B, and delivers peer-left for A
\* exactly once to each remaining member of A and not to the joiner.
C5_MoveLeavesPreviousRoom ==
  [][\A r \in pending :
       LET c == r.conn
           a == currentNoteId[c]
       IN (/\ r.kind = "join"
           /\ last'.seq = r.seq
           /\ last'.outcome = "joined"
           /\ a \in rooms[c]
           /\ a # r.id)
          => /\ a \notin rooms'[c]
             /\ r.id \in rooms'[c]
             /\ \A d \in Conns \ {c} :
                  Count(out'[d], "peer-left", a) = IF a \in rooms[d] THEN 1 ELSE 0
             /\ "peer-left" \notin Events(out'[c])]_vars

C5_Witness ==
  /\ last.kind = "join"
  /\ last.outcome = "joined"
  /\ last.id = Id("n2")
  /\ rooms[last.conn] = {Id("n2")}
  /\ \E d \in Conns \ {last.conn} :
       /\ rooms[d] = {Id("n1")}
       /\ out[d] = <<Msg("peer-left", Id("n1"), "", "", "")>>

InSubmissionOrder(q) ==
  \A i, j \in 1..Len(q) : (i < j /\ q[i].conn = q[j].conn) => q[i].seq < q[j].seq

C3_OwnEditsKeepOrder ==
  /\ InSubmissionOrder(writes)
  /\ \A d \in Conns : InSubmissionOrder(recv[d])

\* C4 as claimed: at quiescence after two racing edits of different connections,
\* the store holds the edit written last and every member that received both
\* `update`s received them in the order of the two writes.
C4_RaceOrderedByStore ==
  (pending = {} /\ Len(writes) = 2 /\ writes[1].conn # writes[2].conn) =>
    /\ store[writes[2].id.val].title = writes[2].title
    /\ store[writes[2].id.val].html = writes[2].html
    /\ \A d \in Conns :
         Len(recv[d]) = 2 => recv[d][1].seq = writes[1].seq /\ recv[d][2].seq = writes[2].seq

\* C4 as amended: at quiescence the store holds the title and html of the edit
\* whose write was applied last, and every room member has received the `update`
\* of each written edit of another connection exactly once, with exactly the
\* title and html of that edit (no merge); the order of receipt is not part of it.
C4_LastWriteWinsNoMerge ==
  (pending = {} /\ writes # << >>) =>
    LET n == Len(writes)
    IN /\ store[writes[n].id.val].title = writes[n].title
       /\ store[writes[n].id.val].html = writes[n].html
       /\ \A d \in Conns :
            /\ {recv[d][j] : j \in 1..Len(recv[d])}
                 = {writes[i] : i \in {i \in 1..n : writes[i].conn # d}}
            /\ Len(recv[d]) = Cardinality({i \in 1..n : writes[i].conn # d})

C4_Witness ==
  /\ pending = {}
  /\ Len(writes) = 2
  /\ writes[1].conn # writes[2].conn
  /\ Len(recv["c3"]) = 2
  /\ recv["c3"][1].seq = writes[2].seq
  /\ recv["c3"][2].seq = writes[1].seq

\* C7: canAccessNote returns true exactly when the note is public, or a share
\* code is supplied and equals the stored one, or a user id is present and is
\* the id of the owner or of an element of sharedWith.
IdOf(v) == IF v.kind \in {"oid", "str", "hexable"} /\ v.hex # "" THEN v.hex ELSE Undefined

C7_AccessRule ==
  (acResult # "none") =>
    (acResult = "allow" <=>
       \/ acNote.isPublic
       \/ (acCode # Undefined /\ acCode = acNote.shareCode)
       \/ /\ acUser # Undefined
          /\ \/ IdOf(acNote.user) = acUser
             \/ \E j \in 1..Len(acNote.sharedWith) : IdOf(acNote.sharedWith[j]) = acUser)

C7_Witness ==
  /\ acResult = "allow"
  /\ ~acNote.isPublic
  /\ acCode = "bad"
  /\ acNote.shareCode = "abc"
  /\ IdOf(acNote.user) # acUser
  /\ Len(acNote.sharedWith) = 2
  /\ acNote.sharedWith[1] = NoRef
  /\ acNote.sharedWith[2] = Oid("u2")
  /\ acUser = "u2"

C10_MissingNoteIsNotFound ==
  (last.kind = "join" /\ isValidObjectId(last.id) /\ ~store[last.id.val].exists) =>
    /\ Len(last.acks) = 1
    /\ ~last.acks[1].ok
    /\ last.acks[1].msg \notin {"Invalid note id.", "Access denied."}
    /\ (last.outcome # "failed" => last.acks[1].msg = "Note not found.")

C10_Witness ==
  /\ last.kind = "join"
  /\ last.id = Id("n9")
  /\ last.code = "abc"
  /\ userId[last.conn] = "u1"
  /\ last.acks = <<Ack(FALSE, "Note not found.")>>

C12_RejoinHasNoSideEffects ==
  [][\A r \in pending :
       (/\ r.kind = "join"
        /\ last'.seq = r.seq
        /\ last'.outcome = "joined"
        /\ r.id \in rooms[r.conn])
       => /\ rooms' = rooms
          /\ currentNoteId' = currentNoteId
          /\ \A d \in Conns \ {r.conn} : out'[d] = << >>]_vars

\* The edits in flight or just completed, and whether an edit left a trace.
EditsInHand == {r \in pending \cup {last} : r.kind = "edit"}
Saved(r) == \E i \in 1..Len(writes) : writes[i].seq = r.seq
Delivered(r) == \E d \in Conns : \E i \in 1..Len(recv[d]) : recv[d][i].seq = r.seq
ErrorOnlyTo(c, m) ==
  /\ connected[c] => out[c] = <<SocketError(m)>>
  /\ \A d \in Conns \ {c} : out[d] = << >>

\* C13: an edit reaches its store write or its broadcast only if its own read
\* found the document and the evaluator allows that document for the
\* connection's identity and no share code; an edit whose read found no
\* document or a document the evaluator denies ends with one socket-error to the
\* submitter only ("Note not found." / "Access denied."), is never written and
\* never broadcast.
C13_EditNeedsDocumentAndAccess ==
  \A r \in EditsInHand :
    /\ (r.pc \in {"writing", "written"} \/ r.outcome = "broadcast" \/ Saved(r) \/ Delivered(r))
         => (r.note.exists /\ canAccessNote(r.note, userId[r.conn], Undefined))
    /\ (r = last /\ r.outcome \notin {"invalid", "failed"}
           /\ ~(r.note.exists /\ canAccessNote(r.note, userId[r.conn], Undefined)))
         => /\ r.outcome = IF r.note.exists THEN "denied" ELSE "notfound"
            /\ ErrorOnlyTo(r.conn, IF r.note.exists THEN "Access denied." ELSE "Note not found.")
            /\ ~Saved(r)
            /\ ~Delivered(r)

C13_Witness ==
  /\ last.kind = "edit"
  /\ last.id = Id("n9")
  /\ last.outcome = "notfound"
  /\ out[last.conn] = <<SocketError("Note not found.")>>
  /\ \E d \in Conns \ {last.conn} : rooms[d] # {}
  /\ writes = << >>

\* C14 as claimed: an edit whose `update` is broadcast has been saved: its write
\* was applied to an existing document before the broadcast.
C14_BroadcastOnlyIfSaved ==
  (last.kind = "edit" /\ last.outcome = "broadcast") => Saved(last)

\* C15: an edit submitted when the store already denies the connection (the
\* document made private, its share code cleared, the user removed from
\* sharedWith, or the document deleted) is never written and never broadcast,
\* whether or not the connection is still a member of the room.
C15_StaleAccessNeverUsed ==
  \A r \in EditsInHand :
    ~r.passed =>
      /\ r.pc \notin {"writing", "written"}
      /\ r.outcome # "broadcast"
      /\ ~Saved(r)
      /\ ~Delivered(r)

C15_Witness ==
  /\ last.kind = "edit"
  /\ last.conn = "c2"
  /\ last.id = Id("n1")
  /\ last.id \in rooms["c2"]
  /\ ~last.passed
  /\ last.outcome = "denied"
  /\ store["n1"].sharedWith = << >>
  /\ out["c2"] = <<SocketError("Access denied.")>>

\* C16 as claimed: an edit of the note n2 by a connection without identity that
\* is in n2's room (it joined while n2 was public) is persisted and broadcast
\* whenever the document still exists, also after n2 was made private.
C16_PublicJoinKeepsWriteAccess ==
  (/\ last.kind = "edit"
   /\ userId[last.conn] = Undefined
   /\ last.id = Id("n2")
   /\ last.id \in rooms[last.conn]
   /\ last.note.exists
   /\ last.outcome # "failed")
  => last.outcome = "broadcast"

\* C16 as amended: an edit by a connection without identity whose read finds
\* the document no longer public is rejected with the socket-error "Access
\* denied." to the submitter only, is not written and not broadcast, although
\* the connection may still be a member of the room.
C16_PublicJoinLosesWriteAccess ==
  (/\ last.kind = "edit"
   /\ userId[last.conn] = Undefined
   /\ last.note.exists
   /\ ~last.note.isPublic)
  => /\ last.outcome = "denied"
     /\ ErrorOnlyTo(last.conn, "Access denied.")
     /\ ~Saved(last)
     /\ ~Delivered(last)

C16_Witness ==
  /\ last.kind = "edit"
  /\ last.conn = "c3"
  /\ last.id = Id("n2")
  /\ Id("n2") \in rooms["c3"]
  /\ currentNoteId["c3"] = Id("n2")
  /\ ~store["n2"].isPublic
  /\ last.outcome = "denied"

\* C17: an edit of a non-public document by a connection whose identity is
\* missing or is neither the owner nor in sharedWith is rejected with a
\* socket-error to the submitter only, without store write or broadcast, also
\* when the connection is in the room because it joined with the correct share
\* code and that code is still the stored one.
NotGranted(note, u) ==
  \/ u = Undefined
  \/ /\ IdOf(note.user) # u
     /\ \A j \in 1..Len(note.sharedWith) : IdOf(note.sharedWith[j]) # u

C17_ShareCodeGivesNoWriteAccess ==
  \A r \in EditsInHand :
    (r.note.exists /\ ~r.note.isPublic /\ NotGranted(r.note, userId[r.conn])) =>
      /\ r.pc \in {"resume", "done"}
      /\ ~Saved(r)
      /\ ~Delivered(r)
      /\ r = last => (r.outcome = "denied" /\ ErrorOnlyTo(r.conn, "Access denied."))

C17_Witness ==
  /\ last.kind = "edit"
  /\ last.conn = "c3"
  /\ last.id = Id("n1")
  /\ rooms["c3"] = {Id("n1")}
  /\ store["n1"].shareCode = "abc"
  /\ last.note.shareCode = "abc"
  /\ last.outcome = "denied"
  /\ out["c3"] = <<SocketError("Access denied.")>>
  /\ store["n1"].title = "T0"

\* C18: a step that completes a join, an edit or a leave with a failure (invalid
\* id, document not found, access denied, store error, not in a room, not joined
\* in that room) changes no room membership and no current-room attribute and
\* delivers no event to any connection other than the requester.
Failures == {"invalid", "notfound", "denied", "failed", "noroom", "notjoined"}

C18_FailureTouchesNobodyElse ==
  [][(last'.kind \in {"join", "edit", "leave"} /\ last'.outcome \in Failures) =>
       /\ rooms' = rooms
       /\ currentNoteId' = currentNoteId
       /\ \A d \in Conns \ {last'.conn} : out'[d] = << >>]_vars

C18_Witness ==
  /\ last.kind = "edit"
  /\ last.conn = "c3"
  /\ last.id = Id("n1")
  /\ last.outcome = "denied"
  /\ out = [NoOut EXCEPT !["c3"] = <<SocketError("Access denied.")>>]
  /\ rooms["c1"] = {Id("n1")}
  /\ rooms["c3"] = {Id("n2")}

\* C19: a leave whose target (the given room, or the current room when none is
\* given) is not a room the connection is in is acknowledged once with ok=false,
\* changes no membership and no current-room attribute and delivers no event.
C19_LeaveOfForeignRoomFails ==
  [][(/\ nsub' = nsub + 1
      /\ last'.kind = "leave"
      /\ LeaveTarget(last'.conn, last'.id) \notin rooms[last'.conn])
     => /\ Len(last'.acks) = 1
        /\ ~last'.acks[1].ok
        /\ rooms' = rooms
        /\ currentNoteId' = currentNoteId
        /\ out' = NoOut]_vars

C19_Witness ==
  /\ last.kind = "leave"
  /\ last.conn = "c1"
  /\ last.id = Id("n2")
  /\ last.acks = <<Ack(FALSE, "Not joined in that room.")>>
  /\ rooms["c1"] = {Id("n1")}
  /\ rooms["c3"] = {Id("n2")}
  /\ out = NoOut

\* C20: a leave of the connection's current room removes it from the room, sets
\* its current-room attribute to none, delivers peer-left for the room exactly
\* once to each remaining member and nothing to anyone else, the leaver
\* included, and is acknowledged with ok=true.
C20_LeaveOfCurrentRoom ==
  [][(/\ nsub' = nsub + 1
      /\ last'.kind = "leave"
      /\ LeaveTarget(last'.conn, last'.id) \in rooms[last'.conn]
      /\ LeaveTarget(last'.conn, last'.id) = currentNoteId[last'.conn])
     => LET c == last'.conn
            target == LeaveTarget(c, last'.id)
        IN /\ rooms' = [rooms EXCEPT ![c] = @ \ {target}]
           /\ currentNoteId' = [currentNoteId EXCEPT ![c] = NullId]
           /\ out'[c] = << >>
           /\ \A d \in Conns \ {c} :
                out'[d] = IF target \in rooms[d]
                          THEN <<Msg("peer-left", target, "", "", "")>>
                          ELSE << >>
           /\ last'.acks = <<Ack(TRUE, Undefined)>>]_vars

C20_Witness ==
  /\ last.kind = "leave"
  /\ last.conn = "c1"
  /\ last.id = Id("n1")
  /\ last.acks = <<Ack(TRUE, Undefined)>>
  /\ rooms["c1"] = {}
  /\ currentNoteId["c1"] = NullId
  /\ out = [NoOut EXCEPT !["c2"] = <<Msg("peer-left", Id("n1"), "", "", "")>>]

\* C21: the step that submits a join or an edit whose note id is not a canonical
\* 24-digit hexadecimal string completes the request at once, leaves no handler
\* waiting on the store and changes nothing in the store; no request with such
\* an id ever waits on the store.
Malformed(id) == id.form # "hex24"

C21_MalformedIdNeverReachesStore ==
  [][nsub' = nsub + 1 =>
       \A r \in pending' \cup {last'} :
         (r.kind \in {"join", "edit"} /\ Malformed(r.id)) =>
           /\ r = last'
           /\ r.pc = "done"
           /\ r.outcome = "invalid"
           /\ r.note = NoNote
           /\ pending' = pending
           /\ store' = store
           /\ writes' = writes]_vars

C21_Witness ==
  /\ last.kind = "join"
  /\ last.id = UpperId("n1")
  /\ last.outcome = "invalid"
  /\ last.acks = <<Ack(FALSE, "Invalid note id.")>>
  /\ last.seq = 2
  /\ pending # {}

\* C22 as claimed: a join sent as join(noteId, ack) with a malformed note id
\* gives the caller a socket-error saying the note id is invalid and an
\* acknowledgment with ok=false.
C22_TwoArgJoinInvalidId ==
  (last.kind = "join" /\ ~last.ack /\ Malformed(last.id)) =>
    /\ SocketError("Invalid note id.") \in {out[last.conn][j] : j \in 1..Len(out[last.conn])}
    /\ Len(last.acks) = 1
    /\ ~last.acks[1].ok

C26_DisconnectDoesNotCancelEdit ==
  [][/\ \A c \in Conns :
          (connected[c] /\ ~connected'[c]) => (pending' = pending /\ store' = store)
     /\ \A r \in pending :
          (r.kind = "edit" /\ ~connected[r.conn]) =>
            /\ (r.pc = "writing" /\ [r EXCEPT !.pc = "written"] \in pending'
                   /\ store[r.id.val].exists)
                 => /\ store'[r.id.val].title = r.title
                    /\ store'[r.id.val].html = r.html
                    /\ writes' = Append(writes, Entry(r))
            /\ (r.pc = "written" /\ last'.seq = r.seq)
                 => /\ last'.outcome = "broadcast"
                    /\ \A d \in Conns \ {r.conn} :
                         out'[d] = IF r.id \in rooms[d] THEN <<UpdateMsg(r)>> ELSE << >>]_vars

C26_Witness ==
  /\ last.kind = "edit"
  /\ last.outcome = "broadcast"
  /\ ~connected[last.conn]
  /\ Saved(last)
  /\ store["n1"].title = "T1"
  /\ store["n1"].html = "H1"
  /\ \E d \in Conns \ {last.conn} : out[d] = <<UpdateMsg(last)>>

\* C25: whenever a request of one connection is waiting on the store, every
\* other open connection can have a leave, a join and an edit taken up, and
\* every waiting request of another connection can take its next step, each
\* while the first request keeps waiting.
Progress(r) ==
  StoreRead(r) \/ StoreWrite(r) \/ JoinResume(r) \/ EditResume(r) \/ EditDone(r)

C25_OtherConnectionsNotBlocked ==
  \A r \in pending :
    r.pc \in {"reading", "writing"} =>
      \A c2 \in Conns \ {r.conn} :
        /\ connected[c2] =>
             /\ ENABLED (Leave(c2, NullId) /\ r \in pending')
             /\ ENABLED (JoinSubmit(c2, Id("n2"), Undefined) /\ r \in pending')
             /\ ENABLED (EditSubmit(c2, Id("n1"), [title |-> "T1", html |-> "H1"])
                          /\ r \in pending')
        /\ \A r2 \in pending :
             r2.conn = c2 => ENABLED (Progress(r2) /\ r \in pending')

C25_Witness ==
  /\ \E r \in pending : r.conn = "c1" /\ r.kind = "edit" /\ r.pc = "writing" /\ r.seq = 1
  /\ last.conn = "c2"
  /\ last.kind = "join"
  /\ last.seq = 2
  /\ last.outcome = "joined"
  /\ rooms["c2"] = {Id("n2")}

\* C24: every handshake is admitted; with no token, a token that does not
\* verify (malformed, expired, or a header that is not a bearer token) the
\* connection has no identity; with a token that verifies the identity is the
\* token's subject, or without one its userId or else its id.
C24_HandshakeAlwaysAdmitted ==
  (last.kind = "handshake") =>
    LET hs == last.hs
        t == IF hs.auth # NoToken THEN hs.auth ELSE hs.header.tok
        bearer == hs.auth # NoToken \/ hs.header.scheme \in {"Bearer", "raw"}
        u == userId[last.conn]
    IN /\ connected[last.conn]
       /\ last.outcome = "admitted"
       /\ (t = NoToken \/ ~bearer \/ t.state \in {"malformed", "expired"}) => u = Undefined
       /\ (bearer /\ t.state = "valid") =>
            /\ Truthy(t.sub) => u = t.sub
            /\ (~Truthy(t.sub) /\ Truthy(t.userId)) => u = t.userId
            /\ (~Truthy(t.sub) /\ ~Truthy(t.userId) /\ Truthy(t.id)) => u = t.id
            /\ (~Truthy(t.sub) /\ ~Truthy(t.userId) /\ ~Truthy(t.id)) => u = Undefined

C24_Witness ==
  /\ last.kind = "handshake"
  /\ last.hs.auth.state = "expired"
  /\ last.hs.auth.sub = "u1"
  /\ connected[last.conn]
  /\ userId[last.conn] = Undefined
  /\ \E d \in Conns \ {last.conn} : connected[d] /\ userId[d] = "u2"

\* C30: no step changes the identity of a connected connection; every join
\* whose read found the document is accepted exactly when the evaluator allows
\* it for that identity, and every edit whose read found the document is denied
\* exactly when the evaluator denies that identity.
C30_IdentityFixedAtHandshake ==
  [][/\ \A c \in Conns : connected[c] => userId'[c] = userId[c]
     /\ (last'.kind = "join" /\ last'.note.exists) =>
          (last'.outcome = "joined"
             <=> canAccessNote(last'.note, userId[last'.conn], last'.code))
     /\ (last'.kind = "edit" /\ last'.note.exists /\ last'.outcome # "failed") =>
          (last'.outcome = "denied"
             <=> ~canAccessNote(last'.note, userId[last'.conn], Undefined))]_vars

C30_Witness ==
  /\ last.kind = "join"
  /\ last.id = Id("n1")
  /\ last.code = Undefined
  /\ last.outcome = "joined"
  /\ userId[last.conn] = "u2"
  /\ last.seq = 2

\* The user on whose behalf a step changes the store: the caller of a route, or
\* the identity of the connection whose edit is written.
Writers == {r \in pending : r.pc = "writing" /\ [r EXCEPT !.pc = "written"] \in pending'}
StepActors ==
  IF last'.kind = "http" THEN {last'.conn} ELSE {userId[r.conn] : r \in Writers}
Owns(note, u) == note.user = Oid(u)
InShared(note, u) == \E j \in 1..Len(note.sharedWith) : note.sharedWith[j] = Oid(u)
Sharing(note) == <<note.exists, note.isPublic, note.shareCode, note.sharedWith>>
Content(note) == <<note.title, note.html>>

NewlySent == {client'.sent[i] : i \in (Len(client.sent) + 1)..Len(client'.sent)}

\* C27: local changes are debounced: an `edit` leaves the editor only when the
\* 120 ms window after the last change has run out, one per window, carrying
\* the latest title and html typed (of the changes sendUpdate has taken in),
\* and never once the editor is unmounted.
C27_DebouncedEdit ==
  [][\A e \in NewlySent : e.ev = "edit" =>
        /\ client.timer = 0
        /\ client'.timer = -1
        /\ Len(client'.sent) = Len(client.sent) + 1
        /\ client.waiting = << >> => /\ e.title = client.typed.title
                                      /\ e.html = client.typed.html
        /\ client.mounted = "yes"]_vars

C27_Witness ==
  /\ client.mounted = "yes"
  /\ client.changes = MaxChanges
  /\ client.timer = -1
  /\ \E i \in 1..Len(client.sent) : client.sent[i] = ClientEvent("edit", client.typed)
  /\ Cardinality({i \in 1..Len(client.sent) : client.sent[i].ev = "edit"}) = 1

\* C28: once a join was acknowledged as failed or a socket-error with a denial
\* text arrived, the editor navigates away at most once and sends neither a
\* join nor an edit any more, the edit of a pending timer included.
C28_DeniedSessionAbandoned ==
  [][/\ client'.navs <= 1
     /\ client.denials > 0 =>
          /\ client'.navs = 1
          /\ \A e \in NewlySent : e.ev = "leave"]_vars

C28_Witness ==
  /\ client.denials > 0
  /\ client.navs = 1
  /\ client.suppressed > 0
  /\ client.reconnects > 0

\* C31: for an open connection the current-room attribute and the room
\* membership agree (it is in room R exactly when currentNoteId is R), and a
\* step changes a connection's currentNoteId only by completing a join or a
\* leave of that same connection.
C31_CurrentRoomAgrees ==
  [][/\ \A c \in Conns : connected'[c] =>
          rooms'[c] = IF currentNoteId'[c] = NullId THEN {} ELSE {currentNoteId'[c]}
     /\ \A c \in Conns : currentNoteId'[c] # currentNoteId[c] =>
          /\ last'.conn = c
          /\ \/ (last'.kind = "join" /\ last'.outcome = "joined"
                    /\ currentNoteId'[c] = last'.id)
             \/ (last'.kind = "leave" /\ last'.outcome = "left"
                    /\ currentNoteId'[c] = NullId)]_vars

\* c has moved from the room of n1 to the room of n2 while d stayed in n1.
C31_Witness ==
  \E c \in Conns, d \in Conns :
    /\ d # c
    /\ last.kind = "join" /\ last.outcome = "joined" /\ last.conn = c
    /\ connected[c]
    /\ currentNoteId[c] = Id("n2") /\ rooms[c] = {Id("n2")}
    /\ \E j \in 1..Len(out[d]) : out[d][j].ev = "peer-left" /\ out[d][j].noteId = Id("n1")

Idle(c) == \A r \in pending : r.conn # c

\* C32: c1 has sent join(D) and then leave(D); once both handlers have
\* completed, c1 is in no document room.
C32_LeaveAfterJoinLeavesRoom ==
  (nsub >= 2 /\ Idle("c1")) => rooms["c1"] = {}

\* C33: c2 has sent join(n1) and then join(n2), c3 join(n2) and then join(n1);
\* once both joins of a connection have completed, it is in the room of the
\* second document only and that document is its currentNoteId.
C33_SecondJoinWins ==
  /\ (nsub >= 4 /\ Idle("c2")) =>
       rooms["c2"] = {Id("n2")} /\ currentNoteId["c2"] = Id("n2")
  /\ (nsub >= 6 /\ Idle("c3")) =>
       rooms["c3"] = {Id("n1")} /\ currentNoteId["c3"] = Id("n1")

\* C34: when a join completes, every edit of the document by another
\* connection that the store applied after the join's snapshot was read has
\* reached the joiner as an `update` or is still to be broadcast.
C34_JoinerMissesNoEdit ==
  (last.kind = "join" /\ last.outcome = "joined") =>
    \A i \in (last.readAt + 1)..Len(writes) :
      (writes[i].id = last.id /\ writes[i].conn # last.conn) =>
        \/ \E r \in pending : r.seq = writes[i].seq
        \/ \E j \in 1..Len(recv[last.conn]) : recv[last.conn][j].seq = writes[i].seq

HasEvent(q, ev) == \E j \in 1..Len(q) : q[j].ev = ev

\* C36: an `update` reaches only connections that are in the document's room
\* when it is broadcast; a connection enters a document's room only by a join
\* of its own whose read found the document and which the evaluator allowed
\* for its identity and share code; `load-note` goes only to such a joiner.
\* So the title and html of a document reach no connection that has not
\* passed an access check for it.
C36_ContentOnlyToAdmittedMembers ==
  [][/\ \A d \in Conns : HasEvent(out'[d], "update") =>
          /\ last'.kind = "edit" /\ last'.outcome = "broadcast"
          /\ d # last'.conn
          /\ last'.id \in rooms[d] /\ last'.id \in rooms'[d]
     /\ \A c \in Conns : \A id \in rooms'[c] \ rooms[c] :
          /\ last'.kind = "join" /\ last'.outcome = "joined"
          /\ last'.conn = c /\ last'.id = id
          /\ last'.note.exists
          /\ canAccessNote(last'.note, userId[c], last'.code)
     /\ \A d \in Conns : HasEvent(out'[d], "load-note") =>
          /\ last'.kind = "join" /\ last'.outcome = "joined" /\ last'.conn = d
          /\ last'.id \in rooms'[d]
          /\ canAccessNote(last'.note, userId[d], last'.code)]_vars

\* An `update` reached the member of the room and not a connection outside it.
C36_Witness ==
  /\ last.kind = "edit" /\ last.outcome = "broadcast"
  /\ \E d \in Conns : HasEvent(out[d], "update") /\ last.id \in rooms[d]
  /\ \E e \in Conns \ {last.conn} : last.id \notin rooms[e] /\ out[e] = << >>

NumEvents(q, ev) == Cardinality({j \in 1..Len(q) : q[j].ev = ev})

\* The outcome of the request the last step completed.
C37_OneOutcome ==
  /\ (last.kind \in {"join", "leave"} /\ last.pc = "done" /\ last.ack) =>
       /\ Len(last.acks) = 1
       /\ last.acks[1].ok <=> last.outcome \in {"joined", "left"}
  /\ (last.kind = "edit" /\ last.pc = "done") =>
       \/ /\ last.outcome = "broadcast"
          /\ \A d \in Conns : NumEvents(out[d], "socket-error") = 0
          /\ \A d \in Conns : NumEvents(out[d], "update") =
               IF d # last.conn /\ last.id \in rooms[d] THEN 1 ELSE 0
       \/ /\ last.outcome \in {"invalid", "notfound", "denied", "failed"}
          /\ NumEvents(out[last.conn], "socket-error") = 1
          /\ \A d \in Conns \ {last.conn} : NumEvents(out[d], "socket-error") = 0
          /\ \A d \in Conns : NumEvents(out[d], "update") = 0

RouteDone(route) ==
  last'.kind = "http" /\ last'.code = route /\ last'.outcome = "200"

\* A join of a connection without identity has just completed on a snapshot
\* of a private note.
AnonymousJoinDone ==
  /\ last'.kind = "join" /\ last'.pc = "done" /\ last'.outcome # "failed"
  /\ ~Truthy(userId[last'.conn])
  /\ last'.note.exists /\ ~last'.note.isPublic

\* C38: share/revoke without a userId leaves the note non-public and without
\* share code; a join of a connection without identity that reads the note in
\* that state is denied whatever share code it presents, and joins no room.
C38_RevokedLinkAdmitsNobody ==
  [][/\ (RouteDone("share/revoke") /\ last'.arg = Undefined) =>
          /\ ~store'[last'.id.val].isPublic
          /\ store'[last'.id.val].shareCode = Undefined
     /\ (AnonymousJoinDone /\ last'.note.shareCode = Undefined) =>
          /\ last'.outcome = "denied"
          /\ last'.acks = <<Ack(FALSE, "Access denied.")>>
          /\ rooms' = rooms]_vars

\* c3 presented the code that was valid before the revocation and was denied.
C38_Witness ==
  /\ last.kind = "join" /\ last.conn = "c3" /\ last.id = Id("n2")
  /\ last.code = "xyz"
  /\ last.note.exists /\ ~last.note.isPublic /\ last.note.shareCode = Undefined
  /\ last.outcome = "denied"
  /\ store["n2"].shareCode = Undefined

\* C39: share/public with enable=false leaves the note non-public with the
\* share code it had; a join of a connection without identity that reads the
\* note in that state is accepted if it presents that code and denied if it
\* presents another code or none.
C39_DisabledLinkKeepsCode ==
  [][/\ (RouteDone("share/public") /\ last'.arg = "false") =>
          /\ ~store'[last'.id.val].isPublic
          /\ store'[last'.id.val].shareCode = store[last'.id.val].shareCode
     /\ (AnonymousJoinDone /\ last'.note.shareCode # Undefined) =>
          IF last'.code = last'.note.shareCode
          THEN /\ last'.outcome = "joined"
               /\ last'.acks = <<Ack(TRUE, Undefined)>>
               /\ last'.id \in rooms'[last'.conn]
          ELSE /\ last'.outcome = "denied"
               /\ last'.acks = <<Ack(FALSE, "Access denied.")>>
               /\ rooms' = rooms]_vars

\* n2 was public; after the owner disabled the link c3 joined it with the code.
C39_Witness ==
  /\ last.kind = "join" /\ last.conn = "c3" /\ last.id = Id("n2")
  /\ last.code = "xyz"
  /\ last.note.exists /\ ~last.note.isPublic /\ last.note.shareCode = "xyz"
  /\ last.outcome = "joined"
  /\ Id("n2") \in rooms["c3"]

=============================================================================
